---- MODULE Spec2Model ----
(***************************************************************************)
(* The two scripts abc.py and abc_langgraph.py, run against one FalkorDB   *)
(* database "cyber_analysis".  The database is a property graph; a script  *)
(* seeds it with one CREATE statement and reads it with fixed MATCH/RETURN *)
(* queries.  The graph engine is modelled as far as these queries use it:  *)
(* CREATE of a pattern list, MATCH of a directed path with label and       *)
(* property-map predicates, RETURN of node properties (null when absent).  *)
(***************************************************************************)
EXTENDS Integers, Sequences, FiniteSets

\* Most creation queries that succeed against the database in one behaviour.
MaxCreates == 3

\* Most function calls one importing caller makes before it exits.
MaxCalls == 5

\* Python's None; also what the driver hands back for a Cypher null.
None == "None"

\* The connected FalkorDBGraph wrapper object (truthy).
Graph == "FalkorDBGraph"

\* The label of a node that a CREATE pattern introduces without declaring it.
NoLabel == ""

\* An empty property map.
NoProps == [k \in {} |-> ""]

Labels == {"IPRange", "SecurityGroup", "Compute", "IAMRole", "DataStore"}

EmptyGraph == [nodes |-> <<>>, edges |-> <<>>]

-----------------------------------------------------------------------------
(* The Cypher texts of the scripts, as data.                               *)

N(var, label, props) == [var |-> var, label |-> label, props |-> props]

R(src, type, props, dst) == [src |-> src, type |-> type, props |-> props, dst |-> dst]

NoMatch == [present |-> FALSE, start |-> [label |-> NoLabel, props |-> NoProps], steps |-> <<>>]

NoCreate == [nodes |-> <<>>, rels |-> <<>>]

\* abc.py, creation_query
creation_query_abc ==
  [ create |->
      [ nodes |-> <<
          N("internet", "IPRange", [cidr |-> "0.0.0.0/0", description |-> "Public Internet"]),
          N("sg_exposed", "SecurityGroup", [name |-> "Web_Server_SG"]),
          N("vm_exposed", "Compute", [id |-> "i-exposed-web-01", platform |-> "AWS EC2", type |-> "Web Server"]),
          N("role_s3", "IAMRole", [name |-> "S3AccessRole", description |-> "Allows read/write to sensitive data"]),
          N("s3_sensitive", "DataStore", [name |-> "sensitive-data-bucket", type |-> "S3"]),
          N("sg_internal", "SecurityGroup", [name |-> "Internal_SG"]),
          N("vm_internal", "Compute", [id |-> "i-internal-db-02", platform |-> "AWS EC2", type |-> "DB Instance"]),
          N("role_rds", "IAMRole", [name |-> "RDSReadOnlyRole"]),
          N("db_non_sensitive", "DataStore", [name |-> "app-db-prod", type |-> "RDS"]) >>,
        rels |-> <<
          R("internet", "INGRESS_TO", NoProps, "sg_exposed"),
          R("sg_exposed", "ATTACHED_TO", NoProps, "vm_exposed"),
          R("vm_exposed", "ASSUMES", NoProps, "role_s3"),
          R("role_s3", "ALLOWS",
            [actions |-> <<"s3:GetObject", "s3:PutObject">>,
             resource |-> "arn:aws:s3:::sensitive-data-bucket/*"], "s3_sensitive"),
          R("sg_internal", "ATTACHED_TO", NoProps, "vm_internal"),
          R("vm_internal", "ASSUMES", NoProps, "role_rds"),
          R("role_rds", "ALLOWS",
            [actions |-> <<"rds:DescribeDBInstances">>, resource |-> "*"], "db_non_sensitive") >> ],
    match |-> NoMatch,
    return |-> <<>> ]

\* abc_langgraph.py, creation_query
creation_query_langgraph ==
  [ create |->
      [ nodes |-> <<
          N("internet", "IPRange", [cidr |-> "0.0.0.0/0", description |-> "Public Internet"]),
          N("sg_web", "SecurityGroup", [name |-> "Web_Server_SG"]),
          N("vm_web", "Compute", [id |-> "i-exposed-web-01", platform |-> "AWS EC2", type |-> "Web Server"]),
          N("role_s3", "IAMRole", [name |-> "S3AccessRole", description |-> "Allows read/write to sensitive data"]),
          N("s3_sensitive", "DataStore", [name |-> "sensitive-data-bucket", type |-> "S3"]),
          N("sg_ssh", "SecurityGroup", [name |-> "SSH_Access_SG"]),
          N("vm_ssh", "Compute", [id |-> "i-exposed-ssh-02", platform |-> "GCP GCE", type |-> "Jump Box"]),
          N("sg_internal", "SecurityGroup", [name |-> "Internal_SG"]),
          N("vm_internal", "Compute", [id |-> "i-internal-db-03", platform |-> "Azure VM", type |-> "DB Instance"]),
          N("role_db", "IAMRole", [name |-> "RDSReadOnlyRole"]),
          N("db_non_sensitive", "DataStore", [name |-> "app-db-prod", type |-> "RDS"]) >>,
        rels |-> <<
          R("internet", "INGRESS_TO", NoProps, "sg_web"),
          R("sg_web", "ATTACHED_TO", NoProps, "vm_web"),
          R("vm_web", "ASSUMES", NoProps, "role_s3"),
          R("role_s3", "ALLOWS",
            [actions |-> <<"s3:GetObject", "s3:PutObject">>,
             resource |-> "arn:aws:s3:::sensitive-data-bucket/*"], "s3_sensitive"),
          R("internet", "INGRESS_TO", [protocol |-> "TCP", port |-> 22], "sg_ssh"),
          R("sg_ssh", "ATTACHED_TO", NoProps, "vm_ssh"),
          R("sg_internal", "ATTACHED_TO", NoProps, "vm_internal"),
          R("vm_internal", "ASSUMES", NoProps, "role_db"),
          R("role_db", "ALLOWS",
            [actions |-> <<"rds:DescribeDBInstances">>, resource |-> "*"], "db_non_sensitive") >> ],
    match |-> NoMatch,
    return |-> <<>> ]

\* Faulty variant: the internal security group is opened to the internet as well.
creation_query_open_internal(s) ==
  LET q == IF s = "abc" THEN creation_query_abc ELSE creation_query_langgraph
  IN [q EXCEPT !.create.rels =
        Append(@, R("internet", "INGRESS_TO", [protocol |-> "TCP", port |-> 22], "sg_internal"))]

\* Faulty variant: a relationship pattern misspells a node variable.
creation_query_misspelt(s) ==
  LET q == IF s = "abc" THEN creation_query_abc ELSE creation_query_langgraph
      rels == q.create.rels
  IN [q EXCEPT !.create.rels = [rels EXCEPT ![Len(rels)].src = "role_readonly"]]

creation_query(s) == IF s = "abc" THEN creation_query_abc ELSE creation_query_langgraph

Step(type, eprops, label, nprops) ==
  [type |-> type, eprops |-> eprops, label |-> label, nprops |-> nprops]

\* RETURN column: property attr of the node bound at path position pos
\* (0 is the start node, i the node reached by step i).
Col(pos, attr) == [pos |-> pos, attr |-> attr]

\* Faulty variant: the DataStore name is misspelt.
attack_path_query_misspelt ==
  [ create |-> NoCreate,
    match |->
      [ present |-> TRUE,
        start |-> [label |-> "IPRange", props |-> [cidr |-> "0.0.0.0/0"]],
        steps |-> <<
          Step("INGRESS_TO", NoProps, "SecurityGroup", NoProps),
          Step("ATTACHED_TO", NoProps, "Compute", NoProps),
          Step("ASSUMES", NoProps, "IAMRole", NoProps),
          Step("ALLOWS", NoProps, "DataStore", [name |-> "sensitive_data_bucket"]) >> ],
    return |-> << Col(2, "id"), Col(2, "platform"), Col(3, "name"), Col(4, "name"), Col(4, "type") >> ]

\* Faulty variant: the analysis query also writes (the sample chain is created in
\* the query that looks for it).
attack_path_query_writes ==
  [ create |-> creation_query_abc.create,
    match |->
      [ present |-> TRUE,
        start |-> [label |-> "IPRange", props |-> [cidr |-> "0.0.0.0/0"]],
        steps |-> <<
          Step("INGRESS_TO", NoProps, "SecurityGroup", NoProps),
          Step("ATTACHED_TO", NoProps, "Compute", NoProps),
          Step("ASSUMES", NoProps, "IAMRole", NoProps),
          Step("ALLOWS", NoProps, "DataStore", [name |-> "sensitive-data-bucket"]) >> ],
    return |-> << Col(2, "id"), Col(2, "platform"), Col(3, "name"), Col(4, "name"), Col(4, "type") >> ]

\* find_attack_paths / find_internet_to_sensitive_data_path, query_string
attack_path_query ==
  [ create |-> NoCreate,
    match |->
      [ present |-> TRUE,
        start |-> [label |-> "IPRange", props |-> [cidr |-> "0.0.0.0/0"]],
        steps |-> <<
          Step("INGRESS_TO", NoProps, "SecurityGroup", NoProps),
          Step("ATTACHED_TO", NoProps, "Compute", NoProps),
          Step("ASSUMES", NoProps, "IAMRole", NoProps),
          Step("ALLOWS", NoProps, "DataStore", [name |-> "sensitive-data-bucket"]) >> ],
    return |-> << Col(2, "id"), Col(2, "platform"), Col(3, "name"), Col(4, "name"), Col(4, "type") >> ]

\* Faulty variant: the port predicate is missing from the INGRESS_TO step.
ssh_exposure_query_any_port ==
  [ create |-> NoCreate,
    match |->
      [ present |-> TRUE,
        start |-> [label |-> "IPRange", props |-> [cidr |-> "0.0.0.0/0"]],
        steps |-> <<
          Step("INGRESS_TO", NoProps, "SecurityGroup", NoProps),
          Step("ATTACHED_TO", NoProps, "Compute", NoProps) >> ],
    return |-> << Col(2, "id"), Col(2, "platform"), Col(1, "name") >> ]

\* find_ssh_exposure, query_string
ssh_exposure_query ==
  [ create |-> NoCreate,
    match |->
      [ present |-> TRUE,
        start |-> [label |-> "IPRange", props |-> [cidr |-> "0.0.0.0/0"]],
        steps |-> <<
          Step("INGRESS_TO", [port |-> 22], "SecurityGroup", NoProps),
          Step("ATTACHED_TO", NoProps, "Compute", NoProps) >> ],
    return |-> << Col(2, "id"), Col(2, "platform"), Col(1, "name") >> ]

-----------------------------------------------------------------------------
(* The graph engine behind graph.query.                                    *)

\* An inline property map {k: v, ...} matches when every key is present
\* with that value.
PropsMatch(want, have) ==
  \A k \in DOMAIN want : k \in DOMAIN have /\ have[k] = want[k]

\* n.attr, null when the node has no such property.
Prop(node, attr) == IF attr \in DOMAIN node.props THEN node.props[attr] ELSE None

Range(s) == {s[i] : i \in DOMAIN s}

RECURSIVE Dedupe(_)
Dedupe(s) ==
  IF s = <<>> THEN <<>>
  ELSE LET rest == Dedupe(SelectSeq(Tail(s), LAMBDA x : x # Head(s)))
       IN <<Head(s)>> \o rest

IndexOf(s, x) == CHOOSE i \in DOMAIN s : s[i] = x

\* The variables a CREATE statement binds, in node-allocation order: the
\* declared ones, then those a relationship pattern names without any
\* declaration (Cypher creates a bare node for each).
CreateVars(stmt) ==
  LET declared == [i \in DOMAIN stmt.nodes |-> stmt.nodes[i].var]
      ends == [i \in 1..(2 * Len(stmt.rels)) |->
                 IF i % 2 = 1 THEN stmt.rels[(i + 1) \div 2].src
                              ELSE stmt.rels[i \div 2].dst]
      implicit == Dedupe(SelectSeq(ends, LAMBDA v : v \notin Range(declared)))
  IN declared \o implicit

\* The nodes one execution of a CREATE statement allocates.
NewNodes(stmt) ==
  LET vars == CreateVars(stmt)
  IN [i \in DOMAIN vars |->
        IF i <= Len(stmt.nodes)
        THEN [label |-> stmt.nodes[i].label, props |-> stmt.nodes[i].props]
        ELSE [label |-> NoLabel, props |-> NoProps]]

\* The edges it allocates, between the nodes allocated after the first base.
NewEdges(stmt, base) ==
  LET vars == CreateVars(stmt)
  IN [i \in DOMAIN stmt.rels |->
        [src |-> base + IndexOf(vars, stmt.rels[i].src),
         dst |-> base + IndexOf(vars, stmt.rels[i].dst),
         type |-> stmt.rels[i].type,
         props |-> stmt.rels[i].props]]

\* Faulty variant: MERGE-like creation that adds nothing once the statement's first
\* node is already in the graph.
ExecCreate_idempotent(g, stmt) ==
  IF /\ stmt.nodes # <<>>
     /\ \E n \in DOMAIN g.nodes :
          /\ g.nodes[n].label = stmt.nodes[1].label
          /\ g.nodes[n].props = stmt.nodes[1].props
  THEN g
  ELSE [nodes |-> g.nodes \o NewNodes(stmt),
        edges |-> g.edges \o NewEdges(stmt, Len(g.nodes))]

\* CREATE: every execution allocates fresh nodes and edges.
ExecCreate(g, stmt) ==
  [nodes |-> g.nodes \o NewNodes(stmt),
   edges |-> g.edges \o NewEdges(stmt, Len(g.nodes))]

NodeMatches(g, n, label, props) ==
  /\ g.nodes[n].label = label
  /\ PropsMatch(props, g.nodes[n].props)

\* A path is <<start node, edge 1, ..., edge i>>.
Frontier(g, p) == IF Len(p) = 1 THEN p[1] ELSE g.edges[p[Len(p)]].dst

NodeAt(g, p, pos) == IF pos = 0 THEN p[1] ELSE g.edges[p[pos + 1]].dst

EdgesOf(p) == {p[i] : i \in 2..Len(p)}

RECURSIVE Extend(_, _, _)
Extend(g, paths, steps) ==
  IF steps = <<>> THEN paths
  ELSE LET st == Head(steps)
           next == UNION { { Append(p, e) : e \in
                              { e \in DOMAIN g.edges :
                                  /\ e \notin EdgesOf(p)
                                  /\ g.edges[e].src = Frontier(g, p)
                                  /\ g.edges[e].type = st.type
                                  /\ PropsMatch(st.eprops, g.edges[e].props)
                                  /\ NodeMatches(g, g.edges[e].dst, st.label, st.nprops) } }
                         : p \in paths }
       IN Extend(g, next, Tail(steps))

\* MATCH: every path of the graph that fits the pattern.
ExecMatch(g, m) ==
  IF ~m.present THEN {}
  ELSE Extend(g, { <<n>> : n \in { n \in DOMAIN g.nodes :
                                     NodeMatches(g, n, m.start.label, m.start.props) } },
              m.steps)

\* RETURN: one row per matched path.
Row(g, p, cols) == [i \in DOMAIN cols |-> Prop(g.nodes[NodeAt(g, p, cols[i].pos)], cols[i].attr)]

\* The orders in which a set of matched paths can come back (the query
\* has no ORDER BY).
RECURSIVE Orderings(_)
Orderings(S) ==
  IF S = {} THEN { <<>> }
  ELSE UNION { { <<x>> \o f : f \in Orderings(S \ {x}) } : x \in S }

\* graph.query(q): the graph after the query and the result sets it can return.
GraphQuery(g, q) ==
  LET g2 == ExecCreate(g, q.create)
      paths == ExecMatch(g2, q.match)
  IN [ graph |-> g2,
       results |-> { [i \in DOMAIN f |-> Row(g2, f[i], q.return)] : f \in Orderings(paths) } ]

-----------------------------------------------------------------------------
(* State.                                                                  *)

VARIABLES
  nodes,         \* the nodes of database "cyber_analysis", in creation order
  edges,         \* its relationships, in creation order
  created,       \* the scripts whose creation query has succeeded, in order
  pc,            \* where the running Python process is
  caller,        \* "main": the script run as __main__; "import": its functions called by an importer
  script,        \* "abc" or "langgraph": the module in use
  falkor_graph,  \* what create_cybersecurity_graph_data returned to the caller
  calls,         \* function calls made by the importing caller
  runLog,        \* database operations of the current __main__ run, in order
  last,          \* what the most recent function call did and printed
  history        \* per analysis query, the two most recent result sets this caller got

vars == <<nodes, edges, created, pc, caller, script, falkor_graph, calls, runLog, last, history>>

db == [nodes |-> nodes, edges |-> edges]

Scripts == {"abc", "langgraph"}

NoReport ==
  [ fn |-> "", arg |-> None, sent |-> FALSE, failed |-> FALSE, result |-> <<>>,
    header |-> FALSE, rows |-> <<>>, footer |-> FALSE, verdict |-> "",
    errmsg |-> FALSE, raised |-> FALSE, ret |-> None ]

InitProcess ==
  /\ created = <<>>
  /\ pc = "idle"
  /\ caller = ""
  /\ script = ""
  /\ falkor_graph = None
  /\ calls = 0
  /\ runLog = <<>>
  /\ last = NoReport
  /\ history = [q \in {"attack", "ssh"} |-> <<>>]

\* The database is empty before the first run.
Init ==
  /\ nodes = <<>>
  /\ edges = <<>>
  /\ InitProcess

-----------------------------------------------------------------------------
(* create_cybersecurity_graph_data                                         *)

\* Faulty variant: the handler hands back the graph object it has.
CreateExcept_returns_graph == [ret |-> Graph, errmsg |-> TRUE, raised |-> FALSE]

\* except Exception as e: print(...); return None
CreateExcept == [ret |-> None, errmsg |-> TRUE, raised |-> FALSE]

\* The try block: FalkorDBGraph(...), graph.query(creation_query),
\* graph.refresh_schema(), return graph.  outcome names the first call that
\* raises, or "ok".
CreateReport(outcome) ==
  LET h == CreateExcept IN
  [ NoReport EXCEPT
      !.fn = "create",
      !.sent = outcome \in {"query_error", "refresh_error", "ok"},
      !.failed = outcome # "ok",
      !.errmsg = IF outcome = "ok" THEN FALSE ELSE h.errmsg,
      !.raised = IF outcome = "ok" THEN FALSE ELSE h.raised,
      !.ret = IF outcome = "ok" THEN Graph ELSE h.ret ]

CreateLog(outcome) ==
  CASE outcome = "connect_error" -> <<"connect_error">>
    [] outcome = "query_error"   -> <<"connected", "create_error">>
    [] outcome = "refresh_error" -> <<"connected", "created", "refresh_error">>
    [] OTHER                     -> <<"connected", "created", "refreshed">>

\* Where the caller goes after a call: an exception leaving a function ends
\* a __main__ run; an importer carries on.
AfterCall(rep, next) ==
  IF caller = "import" THEN "imported"
  ELSE IF rep.raised THEN "done" ELSE next

create_cybersecurity_graph_data ==
  /\ pc \in {"m_create", "imported"}
  /\ pc = "imported" => calls < MaxCalls
  /\ \E outcome \in {"connect_error", "query_error", "refresh_error", "ok"} :
       LET wrote == outcome \in {"refresh_error", "ok"}
           res == GraphQuery(db, creation_query(script))
           rep == CreateReport(outcome)
       IN /\ wrote => Len(created) < MaxCreates
          /\ nodes' = IF wrote THEN res.graph.nodes ELSE nodes
          /\ edges' = IF wrote THEN res.graph.edges ELSE edges
          /\ created' = IF wrote THEN Append(created, script) ELSE created
          /\ falkor_graph' = IF rep.raised THEN falkor_graph ELSE rep.ret
          /\ last' = rep
          /\ runLog' = IF caller = "main" THEN runLog \o CreateLog(outcome) ELSE runLog
          /\ pc' = AfterCall(rep, "m_gate")
  /\ calls' = IF caller = "import" THEN calls + 1 ELSE calls
  /\ UNCHANGED <<caller, script, history>>

-----------------------------------------------------------------------------
(* The analysis functions.                                                 *)

\* Faulty variant: the guard is missing.
GraphAvailable_always(graph) == TRUE

\* if not graph: print("Graph connection is not available..."); return
GraphAvailable(graph) == graph # None

\* Faulty variant: no handler, the exception leaves the function.
QueryExcept_reraise == [errmsg |-> FALSE, raised |-> TRUE]

\* except Exception as e: print(f"An error occurred during query execution: {e}")
QueryExcept == [errmsg |-> TRUE, raised |-> FALSE]

\* format(value, '<20'): None has no such format and raises TypeError.
Formattable(v) == v # None

\* The rows the for loop prints before a row fails to format: row i is
\* printed when the first nfmt columns of rows 1..i all format.
PrintedCount(rows, nfmt) ==
  LET good(i) == \A c \in 1..nfmt : Formattable(rows[i][c])
      bad == {i \in DOMAIN rows : ~good(i)}
  IN IF bad = {} THEN Len(rows)
     ELSE (CHOOSE i \in bad : \A j \in bad : i <= j) - 1

\* if result: header, rows, closing rule; else: the nothing-found line.
PrintResult(fn, result, nfmt) ==
  LET k == PrintedCount(result, nfmt)
      h == QueryExcept
      base == [NoReport EXCEPT !.fn = fn, !.arg = Graph, !.sent = TRUE, !.result = result]
  IN IF result = <<>> THEN [base EXCEPT !.verdict = "none"]
     ELSE IF k = Len(result)
          THEN [base EXCEPT !.verdict = "danger", !.header = TRUE, !.rows = result,
                            !.footer = TRUE]
          ELSE [base EXCEPT !.verdict = "danger", !.header = TRUE,
                            !.rows = SubSeq(result, 1, k),
                            !.errmsg = h.errmsg, !.raised = h.raised]

\* graph.query raised inside the try block.
QueryFailed(fn, graph, sent) ==
  LET h == QueryExcept
  IN [NoReport EXCEPT !.fn = fn, !.arg = graph, !.sent = sent, !.failed = TRUE,
                      !.errmsg = h.errmsg, !.raised = h.raised]

Unavailable(fn, graph) ==
  [NoReport EXCEPT !.fn = fn, !.arg = graph, !.verdict = "unavailable"]

Remember(h, rec) == IF Len(h) < 2 THEN Append(h, rec) ELSE <<h[2], rec>>

\* The body shared by the three analysis functions: key names the query in
\* history, q is its query_string, nfmt the number of columns the row
\* format prints.
RunAnalysis(fn, key, q, nfmt, next) ==
  /\ pc = "imported" => calls < MaxCalls
  /\ calls' = IF caller = "import" THEN calls + 1 ELSE calls
  /\ UNCHANGED <<created, caller, script, falkor_graph>>
  /\ IF ~GraphAvailable(falkor_graph)
     THEN /\ last' = Unavailable(fn, falkor_graph)
          /\ pc' = AfterCall(last', next)
          /\ UNCHANGED <<nodes, edges, runLog, history>>
     ELSE IF falkor_graph = None
     THEN \* None has no attribute query: AttributeError inside the try block
          /\ last' = QueryFailed(fn, falkor_graph, FALSE)
          /\ pc' = AfterCall(last', next)
          /\ UNCHANGED <<nodes, edges, runLog, history>>
     ELSE \E ok \in BOOLEAN :
            LET res == GraphQuery(db, q) IN
            /\ runLog' = IF caller = "main" THEN Append(runLog, fn) ELSE runLog
            /\ IF ok
               THEN \E result \in res.results :
                      /\ last' = PrintResult(fn, result, nfmt)
                      /\ nodes' = res.graph.nodes
                      /\ edges' = res.graph.edges
                      /\ history' = [history EXCEPT ![key] =
                           Remember(@, [ver |-> Len(created), rows |-> Range(result),
                                        n |-> Len(result)])]
               ELSE /\ last' = QueryFailed(fn, falkor_graph, TRUE)
                    /\ UNCHANGED <<nodes, edges, history>>
            /\ pc' = AfterCall(last', next)

\* abc.py
find_attack_paths ==
  /\ script = "abc"
  /\ pc \in {"m_find", "imported"}
  /\ RunAnalysis("find_attack_paths", "attack", attack_path_query, 4, "done")

\* abc_langgraph.py
find_internet_to_sensitive_data_path ==
  /\ script = "langgraph"
  /\ pc \in {"m_find", "imported"}
  /\ RunAnalysis("find_internet_to_sensitive_data_path", "attack", attack_path_query, 4, "m_ssh")

\* abc_langgraph.py
find_ssh_exposure ==
  /\ script = "langgraph"
  /\ pc \in {"m_ssh", "imported"}
  /\ RunAnalysis("find_ssh_exposure", "ssh", ssh_exposure_query, 3, "done")

-----------------------------------------------------------------------------
(* The callers.                                                            *)

\* python abc.py / python abc_langgraph.py
StartMain ==
  /\ pc = "idle"
  /\ \E s \in Scripts : script' = s
  /\ caller' = "main"
  /\ pc' = "m_create"
  /\ UNCHANGED <<nodes, edges, created, falkor_graph, calls, runLog, last, history>>

\* import abc / import abc_langgraph: the __main__ block does not run and
\* the importer calls the functions as it likes, passing on what
\* create_cybersecurity_graph_data returned (None before any call).
StartImport ==
  /\ pc = "idle"
  /\ \E s \in Scripts : script' = s
  /\ caller' = "import"
  /\ pc' = "imported"
  /\ UNCHANGED <<nodes, edges, created, falkor_graph, calls, runLog, last, history>>

\* if falkor_graph:
MainGate(graph) == graph # None

main_if_falkor_graph ==
  /\ pc = "m_gate"
  /\ pc' = IF MainGate(falkor_graph) THEN "m_find" ELSE "done"
  /\ UNCHANGED <<nodes, edges, created, caller, script, falkor_graph, calls, runLog, last, history>>

\* The process ends; the database stays.
Exit ==
  /\ pc \in {"done", "imported"}
  /\ pc' = "idle"
  /\ caller' = ""
  /\ script' = ""
  /\ falkor_graph' = None
  /\ calls' = 0
  /\ runLog' = <<>>
  /\ last' = NoReport
  /\ history' = [q \in {"attack", "ssh"} |-> <<>>]
  /\ UNCHANGED <<nodes, edges, created>>

Next ==
  \/ StartMain
  \/ StartImport
  \/ create_cybersecurity_graph_data
  \/ main_if_falkor_graph
  \/ find_attack_paths
  \/ find_internet_to_sensitive_data_path
  \/ find_ssh_exposure
  \/ Exit

Spec == Init /\ [][Next]_vars

-----------------------------------------------------------------------------
(* A database that already holds data written by others before the first  *)
(* run: inventory records whose nodes need not carry every property.       *)

\* An exposed chain whose Compute node has no platform property.
preexisting_no_platform ==
  [ nodes |-> <<
      N("net", "IPRange", [cidr |-> "0.0.0.0/0"]),
      N("sg", "SecurityGroup", [name |-> "Legacy_SG"]),
      N("vm", "Compute", [id |-> "i-legacy-07"]),
      N("role", "IAMRole", [name |-> "LegacyRole"]),
      N("bucket", "DataStore", [name |-> "sensitive-data-bucket", type |-> "S3"]) >>,
    rels |-> <<
      R("net", "INGRESS_TO", [port |-> 22], "sg"),
      R("sg", "ATTACHED_TO", NoProps, "vm"),
      R("vm", "ASSUMES", NoProps, "role"),
      R("role", "ALLOWS", NoProps, "bucket") >> ]

\* An exposed chain with every property, and an unnamed SecurityGroup
\* open on port 22.
preexisting_complete ==
  [ nodes |-> <<
      N("net", "IPRange", [cidr |-> "0.0.0.0/0"]),
      N("sg", "SecurityGroup", NoProps),
      N("vm", "Compute", [id |-> "i-batch-11", platform |-> "AWS EC2"]),
      N("role", "IAMRole", [name |-> "BatchRole"]),
      N("bucket", "DataStore", [name |-> "sensitive-data-bucket", type |-> "S3"]) >>,
    rels |-> <<
      R("net", "INGRESS_TO", [port |-> 22], "sg"),
      R("sg", "ATTACHED_TO", NoProps, "vm"),
      R("vm", "ASSUMES", NoProps, "role"),
      R("role", "ALLOWS", NoProps, "bucket") >> ]

PreexistingGraphs ==
  { EmptyGraph,
    ExecCreate(EmptyGraph, preexisting_no_platform),
    ExecCreate(EmptyGraph, preexisting_complete) }

InitAnyDB ==
  /\ \E g \in PreexistingGraphs : nodes = g.nodes /\ edges = g.edges
  /\ InitProcess

SpecAnyDB == InitAnyDB /\ [][Next]_vars

-----------------------------------------------------------------------------
(* What the queries return on the current database.                        *)

AttackResults == GraphQuery(db, attack_path_query).results

SshResults == GraphQuery(db, ssh_exposure_query).results

AttackPaths == ExecMatch(db, attack_path_query.match)

SshPaths == ExecMatch(db, ssh_exposure_query.match)

PathNodes(p) == {NodeAt(db, p, i) : i \in 0..(Len(p) - 1)}

AttackFns == {"find_attack_paths", "find_internet_to_sensitive_data_path"}

AnalysisFns == AttackFns \cup {"find_ssh_exposure"}

WebRow == <<"i-exposed-web-01", "AWS EC2", "S3AccessRole", "sensitive-data-bucket", "S3">>

SshRow == <<"i-exposed-ssh-02", "GCP GCE", "SSH_Access_SG">>

InternalIds == {"i-internal-db-02", "i-internal-db-03"}

Count(seq, x) == Cardinality({i \in DOMAIN seq : seq[i] = x})

-----------------------------------------------------------------------------
(* Claims.                                                                 *)

\* C1: after exactly one successful creation query (of either script) on an
\* empty database, the internet-to-sensitive-data query returns exactly one
\* row, naming Compute i-exposed-web-01, IAMRole S3AccessRole and DataStore
\* sensitive-data-bucket.
C1_OneAttackPath ==
  Len(created) = 1 => AttackResults = { <<WebRow>> }

C1_Witness ==
  /\ Len(created) = 1
  /\ last.fn \in AttackFns
  /\ last.rows = <<WebRow>>
  /\ last.footer

\* C2: after exactly one successful creation query of abc_langgraph.py on an
\* empty database, the SSH-exposure query returns exactly one row, for
\* i-exposed-ssh-02 behind SSH_Access_SG; the INGRESS_TO edge without a port
\* is on no matched path and i-exposed-web-01 is not reported.
C2_OneSshExposure ==
  (Len(created) = 1 /\ created[1] = "langgraph") =>
     /\ SshResults = { <<SshRow>> }
     /\ \A p \in SshPaths : "port" \in DOMAIN edges[p[2]].props
     /\ \E e \in DOMAIN edges :
          /\ edges[e].type = "INGRESS_TO"
          /\ "port" \notin DOMAIN edges[e].props
          /\ Prop(nodes[edges[e].dst], "name") = "Web_Server_SG"
     /\ \A r \in SshResults : \A i \in DOMAIN r : r[i][1] # "i-exposed-web-01"

C2_Witness ==
  /\ created = <<"langgraph">>
  /\ last.fn = "find_ssh_exposure"
  /\ last.rows = <<SshRow>>
  /\ last.footer

\* C3: whatever creation queries have succeeded, neither query returns a row
\* for an internal-only Compute, and no INGRESS_TO edge leads from an
\* IPRange 0.0.0.0/0 to a SecurityGroup Internal_SG.
C3_InternalNeverReported ==
  /\ \A r \in AttackResults \cup SshResults :
       \A i \in DOMAIN r : r[i][1] \notin InternalIds
  /\ \A e \in DOMAIN edges :
       ~ /\ edges[e].type = "INGRESS_TO"
         /\ NodeMatches(db, edges[e].src, "IPRange", [cidr |-> "0.0.0.0/0"])
         /\ Prop(nodes[edges[e].dst], "name") = "Internal_SG"

C3_Witness ==
  /\ "abc" \in Range(created)
  /\ "langgraph" \in Range(created)
  /\ last.fn = "find_ssh_exposure"
  /\ last.rows # <<>>
  /\ \E n \in DOMAIN nodes : Prop(nodes[n], "id") = "i-internal-db-02"
  /\ \E n \in DOMAIN nodes : Prop(nodes[n], "id") = "i-internal-db-03"

\* C4: two consecutive results of the same analysis query with no successful
\* creation query between them hold the same rows, and a step in which no
\* creation query succeeds leaves the graph as it was.
C4_MatchingIdempotent ==
  /\ [] \A q \in DOMAIN history :
        (Len(history[q]) = 2 /\ history[q][1].ver = history[q][2].ver) =>
           /\ history[q][1].rows = history[q][2].rows
           /\ history[q][1].n = history[q][2].n
  /\ [][created' = created => (nodes' = nodes /\ edges' = edges)]_vars

C4_Witness ==
  /\ Len(history["attack"]) = 2
  /\ history["attack"][1].ver = history["attack"][2].ver
  /\ history["attack"][2].n >= 2
  /\ Len(history["ssh"]) = 2
  /\ history["ssh"][1].ver = history["ssh"][2].ver
  /\ history["ssh"][2].n >= 1

\* C5 as stated: an error raised by the connection, the creation query, the
\* schema refresh or an analysis query leaves the function as an exception.
C5_ErrorsPropagate ==
  last.failed => last.raised

\* C5, amended: such an error is caught inside the function, which prints an
\* error line and returns normally; create_cybersecurity_graph_data then
\* returns None.
C5_ErrorsCaught ==
  last.failed =>
     /\ ~last.raised
     /\ last.errmsg
     /\ last.rows = <<>>
     /\ last.fn = "create" => (last.ret = None /\ falkor_graph = None)

C5_Witness ==
  /\ last.failed
  /\ last.fn = "find_ssh_exposure"
  /\ last.sent
  /\ last.errmsg

\* C6: one call of an analysis function prints every row the query returned,
\* or fails having printed none; never a strict, non-empty prefix.
C6_NoPartialResults ==
  last.fn \in AnalysisFns =>
     \/ last.rows = last.result
     \/ last.errmsg /\ last.rows = <<>>

\* C7: in a __main__ run an analysis query is issued only after the
\* connection, the creation query and the schema refresh of the same run all
\* succeeded; after a failure the run issues none and ends; abc_langgraph.py
\* queries internet-to-sensitive-data first and SSH exposure second.
C7_ConstructionPrecedesQueries ==
  caller = "main" =>
     /\ \A i \in DOMAIN runLog :
          runLog[i] \in AnalysisFns =>
             /\ i > 3
             /\ SubSeq(runLog, 1, 3) = <<"connected", "created", "refreshed">>
     /\ (\E i \in DOMAIN runLog : runLog[i] \in {"connect_error", "create_error", "refresh_error"}) =>
          /\ pc \in {"m_gate", "done"}
          /\ \A i \in DOMAIN runLog : runLog[i] \notin AnalysisFns
     /\ \A i \in DOMAIN runLog :
          /\ runLog[i] = "find_ssh_exposure" =>
               (i = 5 /\ runLog[4] = "find_internet_to_sensitive_data_path" /\ script = "langgraph")
          /\ runLog[i] \in AttackFns => i = 4
     /\ pc = "m_ssh" => (Len(runLog) = 4 /\ runLog[4] = "find_internet_to_sensitive_data_path")

C7_Witness ==
  /\ caller = "main"
  /\ script = "langgraph"
  /\ pc = "done"
  /\ runLog = <<"connected", "created", "refreshed",
                "find_internet_to_sensitive_data_path", "find_ssh_exposure">>

\* C8: every edge's source and target are existing nodes of the graph that
\* carry one of the five labels.
C8_EdgesWellFormed ==
  \A e \in DOMAIN edges :
     /\ edges[e].src \in DOMAIN nodes
     /\ edges[e].dst \in DOMAIN nodes
     /\ nodes[edges[e].src].label \in Labels
     /\ nodes[edges[e].dst].label \in Labels

C8_Witness ==
  /\ Len(created) >= 2
  /\ "abc" \in Range(created)
  /\ "langgraph" \in Range(created)
  /\ Len(edges) >= 16

\* C9: after k successful creation queries on an empty database (schema
\* refresh succeeded or not) the graph holds k pairwise disjoint copies of
\* the internet-to-sensitive-data chain and the query returns exactly k rows,
\* all for i-exposed-web-01; the SSH-exposure query returns as many rows as
\* there were successful creation queries of abc_langgraph.py.
C9_CreationAccumulates ==
  /\ Cardinality(AttackPaths) = Len(created)
  /\ \A p1, p2 \in AttackPaths : p1 # p2 => PathNodes(p1) \cap PathNodes(p2) = {}
  /\ \A r \in AttackResults :
       /\ Len(r) = Len(created)
       /\ \A i \in DOMAIN r : r[i] = WebRow
  /\ \A r \in SshResults :
       /\ Len(r) = Count(created, "langgraph")
       /\ \A i \in DOMAIN r : r[i] = SshRow

C9_Witness ==
  /\ Len(created) = 3
  /\ Count(created, "langgraph") = 2
  /\ last.fn = "create"
  /\ last.failed
  /\ last.sent
  /\ Cardinality(AttackPaths) = 3

\* C10: called with None, an analysis function sends no query, prints neither
\* findings nor the nothing-found line nor an error, only the notice that no
\* graph is available, returns normally, and leaves the database unchanged.
C10_NoGraphNoQuery ==
  /\ [] ((last.fn \in AnalysisFns /\ last.arg = None) =>
           /\ ~last.sent
           /\ ~last.header
           /\ last.rows = <<>>
           /\ last.verdict = "unavailable"
           /\ ~last.errmsg
           /\ ~last.raised)
  /\ [][(last'.fn \in AnalysisFns /\ last'.arg = None) =>
          (nodes' = nodes /\ edges' = edges)]_vars

C10_Witness ==
  /\ last.fn = "find_ssh_exposure"
  /\ last.arg = None
  /\ last.verdict = "unavailable"
  /\ nodes # <<>>

====
